---------------------------- MODULE Spec2Model ----------------------------
(***************************************************************************)
(* PyTeCK simulation.py: first_derivative, Simulation.setup_case,          *)
(* Simulation.run_case and Simulation.process_results.                     *)
(*                                                                         *)
(* Floating-point values are modelled as exact rationals <<num, den>> in   *)
(* lowest terms with den > 0; times are whole multiples of one time unit   *)
(* and every quantity is already in SI units, so pint's .to() keeps its    *)
(* magnitude.                                                              *)
(* The Cantera reactor network is an opaque stepper: each step() advances  *)
(* its time by a positive amount and leaves the reactor in some new state. *)
(***************************************************************************)
EXTENDS Integers, Sequences, FiniteSets, TLC

VARIABLES
    kind,              \* self.kind
    properties,        \* self.properties (a dict: the keys present are its DOMAIN)
    ignition_target,   \* self.ignition_target: [name |-> s] or [index |-> i]
    ignition_type,     \* self.ignition_type
    gas,               \* self.gas: the species names of the mechanism, in index order
    time_end,          \* self.time_end
    walls,             \* the walls installed on self.reac, by their velocity
    max_time_step,     \* the ReactorNet's maximum time step (0: not set)
    reac_net_time,     \* self.reac_net.time
    reac,              \* the reactor's current T, P, volume, Y
    rows,              \* the rows of the table "simulation"
    prev,              \* prev_time, prev_temp, ...: <<>> while unbound
    nsteps,            \* the calls of self.reac_net.step made so far
    pc,                \* where the case is in its life
    err,               \* the exception that ended it, "" if none
    target,            \* process_results: the diagnostic channel (local)
    ind,               \* process_results: the peak indices, 0-based (local)
    ndiff,             \* process_results: the calls of first_derivative made
    x, y, dydx         \* first_derivative: arguments and result

vars == <<kind, properties, ignition_target, ignition_type, gas, time_end,
          walls, max_time_step, reac_net_time, reac, rows, prev, nsteps, pc,
          err, target, ind, ndiff, x, y, dydx>>

-----------------------------------------------------------------------------
(* Bounds of the model.                                                    *)

\* the largest number of species of a mechanism
MaxSpecies == 2
\* the largest number of samples of a synthetic series
MaxLen == 5
\* the largest slope of a synthetic linear signal
MaxSlope == 2

-----------------------------------------------------------------------------
(* Exact rational arithmetic standing for the floats of the program.       *)

Abs(n) == IF n < 0 THEN -n ELSE n

RECURSIVE GCD(_, _)
GCD(a, b) == IF b = 0 THEN a ELSE GCD(b, a % b)

Rat(n, d) ==
    LET s == IF d < 0 THEN -1 ELSE 1
        g == GCD(Abs(n), Abs(d))
    IN  <<(s * n) \div g, (s * d) \div g>>

RInt(n) == <<n, 1>>
RAdd(a, b) == Rat(a[1] * b[2] + b[1] * a[2], a[2] * b[2])
RSub(a, b) == Rat(a[1] * b[2] - b[1] * a[2], a[2] * b[2])
RMul(a, b) == Rat(a[1] * b[1], a[2] * b[2])
RDiv(a, b) == Rat(a[1] * b[2], a[2] * b[1])
RLess(a, b) == a[1] * b[2] < b[1] * a[2]
RLeq(a, b) == a[1] * b[2] <= b[1] * a[2]


-----------------------------------------------------------------------------
(* numpy, as simulation.py uses it.  Python indices are 0-based: At(s, i)  *)
(* is s[i].                                                                *)

At(s, i) == s[i + 1]

Ones(n) == [i \in 1..n |-> RInt(1)]

\* np.gradient(f, dx, edge_order=...) on a 1-D array of at least two samples,
\* in the numpy the module was written against (spacing argument, < 1.13):
\* second-order central differences inside, first- or second-order one-sided
\* differences at the two ends, and then "out /= dx", which with an array dx
\* divides sample by sample.
NpGradient(f, dx, edge_order) ==
    LET n == Len(f)
        two == RInt(2)
        three == RInt(3)
        four == RInt(4)
        first_order == n = 2 \/ edge_order = 1
        out == [i \in 1..n |->
                 IF 1 < i /\ i < n
                 THEN RDiv(RSub(f[i + 1], f[i - 1]), two)
                 ELSE IF i = 1
                 THEN IF first_order
                      THEN RSub(f[2], f[1])
                      ELSE RDiv(RSub(RInt(0),
                                     RAdd(RSub(RMul(three, f[1]),
                                               RMul(four, f[2])), f[3])),
                                two)
                 ELSE IF first_order
                      THEN RSub(f[n], f[n - 1])
                      ELSE RDiv(RAdd(RSub(RMul(three, f[n]),
                                          RMul(four, f[n - 1])), f[n - 2]),
                                two)]
    IN  [i \in 1..n |-> RDiv(out[i], dx[i])]

\* first_derivative(x, y) = np.gradient(y, np.gradient(x), edge_order=2)
first_derivative(xs, ys) ==
    NpGradient(ys, NpGradient(xs, Ones(Len(xs)), 1), 2)

\* np.gradient raises ValueError on fewer than two samples
GradientFails(xs) == Len(xs) < 2

\* np.interp(t, [x0, x1], [y0, y1]) with x0 < x1
NpInterp(t, x0, x1, y0, y1) ==
    IF t <= x0 THEN y0
    ELSE IF t >= x1 THEN y1
    ELSE RAdd(RMul(RDiv(RSub(y1, y0), RInt(x1 - x0)), RInt(t - x0)), y0)

\* np.argmax(a): the 0-based position of the first largest element
NpArgmax(a) ==
    (CHOOSE i \in 1..Len(a) :
        /\ \A j \in 1..Len(a) : RLeq(a[j], a[i])
        /\ \A j \in 1..(i - 1) : RLess(a[j], a[i])) - 1

\* a[mask]: the elements of a where the boolean array mask is true
BoolIndex(a, mask) ==
    LET pos == SelectSeq([i \in 1..Len(a) |-> i], LAMBDA i : mask[i])
    IN  [k \in 1..Len(pos) |-> a[pos[k]]]

\* np.where(mask)[0]: the 0-based positions where mask is true
NpWhere(mask) ==
    LET pos == SelectSeq([i \in 1..Len(mask) |-> i], LAMBDA i : mask[i])
    IN  [k \in 1..Len(pos) |-> pos[k] - 1]

\* a[idx] for an array idx of 0-based indices
Take(a, idx) == [k \in 1..Len(idx) |-> At(a, idx[k])]

\* detect_peaks(x) with its default arguments: the 0-based indices, in
\* increasing order, of the samples that are greater than the one before and
\* not less than the one after; the first and the last sample are never peaks.
detect_peaks(a) ==
    LET n == Len(a)
        IsPeak(i) == /\ 1 < i /\ i < n
                     /\ RLess(a[i - 1], a[i])
                     /\ RLeq(a[i + 1], a[i])
        pos == SelectSeq([i \in 1..n |-> i], IsPeak)
    IN  [k \in 1..Len(pos) |-> pos[k] - 1]


-----------------------------------------------------------------------------
(* The inputs of a case.                                                   *)

\* species names, closed under str.lower() and under dropping a final "*"
Names == {"OH*", "oh*", "OH", "oh"}

\* str.lower()
Lower(s) == CASE s = "OH*" -> "oh*"
              [] s = "OH" -> "oh"
              [] OTHER -> s

\* spec[-1] == '*'
EndsWithStar(s) == s \in {"OH*", "oh*"}

\* spec[:-1]
DropLast(s) == CASE s = "OH*" -> "OH"
                 [] s = "oh*" -> "oh"
                 [] s = "OH" -> "O"
                 [] OTHER -> "o"

\* the mechanisms: lists of distinct species names
Mechanisms ==
    UNION {{g \in [1..n -> Names] : \A i, j \in 1..n : g[i] = g[j] => i = j} :
           n \in 1..MaxSpecies}

\* the declared ignition delays
Delays == {-1, 0, 1}

\* the volume-time history of an RCM case
TimeHistory == <<0, 60, 180>>
VolumeHistory == <<4, 2, 1>>

OptionalKeys == {"pressure-rise", "volume", "time"}

\* a quantity is <<magnitude>>; the simulated delays are rationals
AllProperties(delay) ==
    [k \in {"ignition-delay"} \cup OptionalKeys |->
        CASE k = "ignition-delay" -> <<delay>>
          [] k = "pressure-rise" -> <<1>>
          [] k = "volume" -> VolumeHistory
          [] k = "time" -> TimeHistory]

PropertySets ==
    {[k \in {"ignition-delay"} \cup K |-> AllProperties(d)[k]] :
        K \in SUBSET OptionalKeys, d \in Delays}

IgnitionTargets ==
    {[name |-> s] : s \in {"pressure", "temperature"} \cup Names}

IgnitionTypes == {"max", "d/dt max"}

\* the step sizes the integrator may take
StepSizes == {40, 60, 120}

\* the reactor before setup_case builds it
NoReactor == [T |-> RInt(0), P |-> RInt(0), V |-> RInt(0), Y |-> <<>>]

\* the reactor as setup_case leaves it: gas.TPX = initial_temp, initial_pres,
\* reactants and Cantera's unit volume
InitialReactor(n) ==
    [T |-> RInt(2), P |-> RInt(1), V |-> RInt(1),
     Y |-> [i \in 1..n |-> IF i = 1 THEN RInt(1) ELSE RInt(0)]]

\* the states a step may leave the reactor in
ReactorStates(n) ==
    {[T |-> RInt(4), P |-> RInt(3), V |-> RInt(1),
      Y |-> [i \in 1..n |-> Rat(1, n)]],
     [T |-> RInt(9), P |-> RInt(5), V |-> RInt(2),
      Y |-> [i \in 1..n |-> IF i = n THEN RInt(1) ELSE RInt(0)]]}

-----------------------------------------------------------------------------
(* Simulation.__init__                                                     *)

Init ==
    /\ kind \in {"ST", "RCM"}
    /\ properties \in PropertySets
    /\ ignition_target \in IgnitionTargets
    /\ ignition_type \in IgnitionTypes
    /\ gas = <<>>
    /\ time_end = 0
    /\ walls = <<>>
    /\ max_time_step = 0
    /\ reac_net_time = 0
    /\ reac = NoReactor
    /\ rows = <<>>
    /\ prev = <<>>
    /\ nsteps = 0
    /\ pc = "constructed"
    /\ err = ""
    /\ target = <<>>
    /\ ind = <<>>
    /\ ndiff = 0
    /\ x = <<>>
    /\ y = <<>>
    /\ dydx = <<>>

-----------------------------------------------------------------------------
(* Simulation.setup_case                                                   *)

Has(key) == key \in DOMAIN properties

\* WallsMade whose second branch tests 'volume' where it should test
\* 'pressure-rise'
WallsMadeWrongKey(k, props) ==
    IF k = "ST" /\ "pressure-rise" \notin DOMAIN props
    THEN <<"zero">>
    ELSE IF k = "ST" /\ "volume" \in DOMAIN props
    THEN <<"PressureRiseProfile">>
    ELSE IF k = "RCM" /\ "volume" \notin DOMAIN props
    THEN <<"zero">>
    ELSE IF k = "RCM" /\ "volume" \in DOMAIN props
    THEN <<"VolumeProfile">>
    ELSE <<>>

\* the if/elif chain that installs the wall: the velocities of the walls made
WallsMade(k, props) ==
    IF k = "ST" /\ "pressure-rise" \notin DOMAIN props
    THEN <<"zero">>
    ELSE IF k = "ST" /\ "pressure-rise" \in DOMAIN props
    THEN <<"PressureRiseProfile">>
    ELSE IF k = "RCM" /\ "volume" \notin DOMAIN props
    THEN <<"zero">>
    ELSE IF k = "RCM" /\ "volume" \in DOMAIN props
    THEN <<"VolumeProfile">>
    ELSE <<>>

\* self.properties['time'] in the last branch raises KeyError without the key
WallRaises(k, props) ==
    k = "RCM" /\ "volume" \in DOMAIN props /\ "time" \notin DOMAIN props

\* np.min(np.diff(a))
MinDiff(a) ==
    CHOOSE d \in {a[i + 1] - a[i] : i \in 1..(Len(a) - 1)} :
        \A i \in 1..(Len(a) - 1) : d <= a[i + 1] - a[i]

\* self.time_end = 100 * self.properties['ignition-delay'].magnitude
EndTime(props) == 100 * props["ignition-delay"][1]

\* try_list
TryList(spec) ==
    <<spec, Lower(spec)>> \o
    (IF EndsWithStar(spec)
     THEN <<DropLast(spec), Lower(DropLast(spec))>>
     ELSE <<>>)

\* gas.species_index(sp): the 0-based index; ValueError when there is none
HasSpecies(g, sp) == \E i \in 1..Len(g) : g[i] = sp
species_index(g, sp) == (CHOOSE i \in 1..Len(g) : g[i] = sp) - 1

\* the for loop over try_list: <<>> is None, <<i>> the index found first
FindSpecies(g, try_list) ==
    LET hits == SelectSeq(try_list, LAMBDA sp : HasSpecies(g, sp))
    IN  IF hits = <<>> THEN <<>> ELSE <<species_index(g, hits[1])>>

\* "if ind:": None and 0 are both false
Truthy(found) == found # <<>> /\ found[1] # 0

IsSpeciesTarget(t) ==
    "name" \in DOMAIN t /\ t.name \notin {"pressure", "temperature"}

SetupCase ==
    /\ pc = "constructed"
    /\ \E mech \in Mechanisms :
        LET found == FindSpecies(mech, TryList(ignition_target.name))
        IN  /\ gas' = mech
            /\ time_end' = EndTime(properties)
            /\ reac' = InitialReactor(Len(mech))
            /\ IF WallRaises(kind, properties)
               THEN /\ pc' = "error"
                    /\ err' = "KeyError"
                    /\ UNCHANGED <<walls, max_time_step, ignition_target,
                                   ignition_type>>
               ELSE /\ pc' = "configured"
                    /\ err' = ""
                    /\ walls' = walls \o WallsMade(kind, properties)
                    /\ max_time_step' =
                          IF Has("time") THEN MinDiff(properties["time"])
                          ELSE 0
                    /\ IF ~IsSpeciesTarget(ignition_target)
                       THEN UNCHANGED <<ignition_target, ignition_type>>
                       ELSE IF Truthy(found)
                       THEN /\ ignition_target' = [index |-> found[1]]
                            /\ UNCHANGED ignition_type
                       ELSE /\ ignition_target' = [name |-> "pressure"]
                            /\ ignition_type' = "d/dt max"
    /\ UNCHANGED <<kind, properties, reac_net_time, rows, prev, nsteps,
                   target, ind, ndiff, x, y, dydx>>


-----------------------------------------------------------------------------
(* Simulation.run_case                                                     *)

\* the row written when the step stayed within time_end
VerbatimRow(t, st) ==
    [time |-> t, temperature |-> st.T, pressure |-> st.P, volume |-> st.V,
     mass_fractions |-> st.Y]

\* InterpolatedRow that keeps the integrator's time instead of time_end
InterpolatedRowUnclamped(te, p, t, st) ==
    [time |-> t,
     temperature |-> NpInterp(te, p.time, t, p.temp, st.T),
     pressure |-> NpInterp(te, p.time, t, p.pres, st.P),
     volume |-> NpInterp(te, p.time, t, p.vol, st.V),
     mass_fractions |->
        [i \in 1..Len(st.Y) |->
            NpInterp(te, p.time, t, p.mass_frac[i], st.Y[i])]]

\* the row written when the step went beyond time_end: every channel is
\* interpolated between the prev_* values p and the reactor's state st at t
InterpolatedRow(te, p, t, st) ==
    [time |-> te,
     temperature |-> NpInterp(te, p.time, t, p.temp, st.T),
     pressure |-> NpInterp(te, p.time, t, p.pres, st.P),
     volume |-> NpInterp(te, p.time, t, p.vol, st.V),
     mass_fractions |->
        [i \in 1..Len(st.Y) |->
            NpInterp(te, p.time, t, p.mass_frac[i], st.Y[i])]]

\* prev_time, prev_temp, prev_pres, prev_vol, prev_mass_frac after a step
SavedState(t, st) ==
    [time |-> t, temp |-> st.T, pres |-> st.P, vol |-> st.V,
     mass_frac |-> st.Y]

\* the steps the integrator may take: reac_net.set_max_time_step bounds them
AllowedSteps(limit) == {dt \in StepSizes : limit = 0 \/ dt <= limit}

\* the loop's condition
LoopContinues(t, te) == t < te

\* the table is created and the initial conditions are its first row
RunCaseStart ==
    /\ pc = "configured"
    /\ rows' = Append(rows, VerbatimRow(reac_net_time, reac))
    /\ pc' = "integrating"
    /\ UNCHANGED <<kind, properties, ignition_target, ignition_type, gas,
                   time_end, walls, max_time_step, reac_net_time, reac, prev,
                   nsteps, err, target, ind, ndiff, x, y, dydx>>

\* one pass of the while loop: step, write a row, save the prev_* values.
\* Reading prev_time before any pass has assigned it raises UnboundLocalError.
RunCaseStep ==
    /\ pc = "integrating"
    /\ LoopContinues(reac_net_time, time_end)
    /\ \E dt \in AllowedSteps(max_time_step), st \in ReactorStates(Len(gas)) :
        LET t == reac_net_time + dt
        IN  /\ reac_net_time' = t
            /\ reac' = st
            /\ nsteps' = nsteps + 1
            /\ IF t > time_end /\ prev = <<>>
               THEN /\ pc' = "error"
                    /\ err' = "UnboundLocalError"
                    /\ UNCHANGED <<rows, prev>>
               ELSE /\ rows' = Append(rows,
                                  IF t > time_end
                                  THEN InterpolatedRow(time_end, prev[1], t, st)
                                  ELSE VerbatimRow(t, st))
                    /\ prev' = <<SavedState(t, st)>>
                    /\ UNCHANGED <<pc, err>>
    /\ UNCHANGED <<kind, properties, ignition_target, ignition_type, gas,
                   time_end, walls, max_time_step, target, ind, ndiff,
                   x, y, dydx>>

\* the loop ends, the table is flushed and the file closed
RunCaseFinish ==
    /\ pc = "integrating"
    /\ ~LoopContinues(reac_net_time, time_end)
    /\ pc' = "done"
    /\ UNCHANGED <<kind, properties, ignition_target, ignition_type, gas,
                   time_end, walls, max_time_step, reac_net_time, reac, rows,
                   prev, nsteps, err, target, ind, ndiff, x, y, dydx>>

-----------------------------------------------------------------------------
(* Simulation.process_results                                              *)

\* np.nan
NaN == <<0, 0>>

\* table.col('time')
TimeColumn(tbl) == [i \in 1..Len(tbl) |-> tbl[i].time]

\* the channel the ignition target names
TargetColumn(tbl, tgt) ==
    IF "name" \in DOMAIN tgt /\ tgt.name = "pressure"
    THEN [i \in 1..Len(tbl) |-> tbl[i].pressure]
    ELSE IF "name" \in DOMAIN tgt /\ tgt.name = "temperature"
    THEN [i \in 1..Len(tbl) |-> tbl[i].temperature]
    ELSE [i \in 1..Len(tbl) |-> At(tbl[i].mass_fractions, tgt.index)]

\* "if self.ignition_type == 'd/dt max'"
DifferentiatesFirst(typ) == typ = "d/dt max"

\* FallsBack without its test of the ignition type
FallsBackAnyType(peaks, typ) == Len(peaks) = 0

\* "if len(ind) == 0 and self.ignition_type == 'max'"
FallsBack(peaks, typ) == Len(peaks) = 0 /\ typ = "max"

\* time_comp
CompressionTime(props) ==
    IF "compression-time" \in DOMAIN props
    THEN props["compression-time"][1]
    ELSE 0

\* UpToMax with "<" for "<=": the dominant peak itself is left out
UpToMaxStrict(peaks, max_ind) ==
    BoolIndex(peaks, [k \in 1..Len(peaks) |-> peaks[k] < max_ind])

\* ind[ind <= max_ind]
UpToMax(peaks, max_ind) ==
    BoolIndex(peaks, [k \in 1..Len(peaks) |-> peaks[k] <= max_ind])

\* time[ind[np.where((time[ind[ind <= max_ind]] - time_comp) > 0)]] - time_comp
IgnDelays(time, peaks, max_ind, time_comp) ==
    LET early == UpToMax(peaks, max_ind)
        late == [k \in 1..Len(early) |-> At(time, early[k]) - time_comp > 0]
        kept == Take(peaks, NpWhere(late))
    IN  [k \in 1..Len(kept) |-> At(time, kept[k]) - time_comp]

\* ind[np.argmax(target[ind])]
MaxInd(chan, peaks) == At(peaks, NpArgmax(Take(chan, peaks)))

\* self.properties['simulated-ignition-delay']
OverallDelay(ign_delays) ==
    IF Len(ign_delays) > 0 THEN RInt(ign_delays[Len(ign_delays)])
    ELSE RInt(0)

\* self.properties['simulated-first-stage-delay']
FirstStageDelay(ign_delays) ==
    IF Len(ign_delays) > 1 THEN RInt(ign_delays[1]) ELSE NaN

\* the channel and the peaks up to the fallback, with the calls of
\* first_derivative made; failed when np.gradient raised
FindPeaks(tbl, tgt, typ) ==
    LET time == TimeColumn(tbl)
        xs == [i \in 1..Len(time) |-> RInt(time[i])]
        t0 == TargetColumn(tbl, tgt)
    IN  IF DifferentiatesFirst(typ) /\ GradientFails(xs)
        THEN [failed |-> TRUE, target |-> t0, ind |-> <<>>, ndiff |-> 1]
        ELSE LET t1 == IF DifferentiatesFirst(typ)
                       THEN first_derivative(xs, t0) ELSE t0
                 n1 == IF DifferentiatesFirst(typ) THEN 1 ELSE 0
                 i1 == detect_peaks(t1)
             IN  IF ~FallsBack(i1, typ)
                 THEN [failed |-> FALSE, target |-> t1, ind |-> i1,
                       ndiff |-> n1]
                 ELSE IF GradientFails(xs)
                 THEN [failed |-> TRUE, target |-> t1, ind |-> i1,
                       ndiff |-> n1 + 1]
                 ELSE LET t2 == first_derivative(xs, t1)
                      IN  [failed |-> FALSE, target |-> t2,
                           ind |-> detect_peaks(t2), ndiff |-> n1 + 1]

\* np.argmax of an empty array raises ValueError
ProcessResults ==
    /\ pc = "done"
    /\ LET found == FindPeaks(rows, ignition_target, ignition_type)
           time == TimeColumn(rows)
       IN  /\ target' = found.target
           /\ ind' = found.ind
           /\ ndiff' = found.ndiff
           /\ IF found.failed \/ found.ind = <<>>
              THEN /\ pc' = "error"
                   /\ err' = "ValueError"
                   /\ UNCHANGED properties
              ELSE LET max_ind == MaxInd(found.target, found.ind)
                       ign_delays == IgnDelays(time, found.ind, max_ind,
                                               CompressionTime(properties))
                   IN  /\ pc' = "processed"
                       /\ err' = ""
                       /\ properties' =
                            [k \in DOMAIN properties \cup
                                   {"simulated-ignition-delay",
                                    "simulated-first-stage-delay"} |->
                               IF k = "simulated-ignition-delay"
                               THEN OverallDelay(ign_delays)
                               ELSE IF k = "simulated-first-stage-delay"
                               THEN FirstStageDelay(ign_delays)
                               ELSE properties[k]]
    /\ UNCHANGED <<kind, ignition_target, ignition_type, gas, time_end, walls,
                   max_time_step, reac_net_time, reac, rows, prev, nsteps,
                   x, y, dydx>>

-----------------------------------------------------------------------------
(* One case, from its construction to its ignition delays.                 *)

Next ==
    \/ SetupCase
    \/ RunCaseStart
    \/ RunCaseStep
    \/ RunCaseFinish
    \/ ProcessResults

Spec == Init /\ [][Next]_vars


-----------------------------------------------------------------------------
(* process_results on a recorded series: the case has been run and its     *)
(* table holds a series of 3..MaxLen rows.                                 *)

\* the spacings of the recorded times: uniform, or alternating short and long
Spacings(n) ==
    {[i \in 1..(n - 1) |-> 100],
     [i \in 1..(n - 1) |-> IF i % 2 = 1 THEN 100 ELSE 200],
     [i \in 1..(n - 1) |-> IF i % 2 = 1 THEN 200 ELSE 100]}

\* the values a recorded channel takes
Levels == 0..2

\* the declared compression time of an RCM case
CompressionTimes == {100}

\* the times 0, g[1], g[1] + g[2], ...
RECURSIVE TimesFrom(_, _)
TimesFrom(t, g) ==
    IF g = <<>> THEN <<t>> ELSE <<t>> \o TimesFrom(t + g[1], Tail(g))

\* a table whose pressure is sig, whose temperature is sig reversed and whose
\* second mass fraction is sig rotated by one sample
SeriesTable(times, sig) ==
    LET n == Len(sig)
    IN  [i \in 1..n |->
           [time |-> times[i],
            temperature |-> RInt(sig[n + 1 - i]),
            pressure |-> RInt(sig[i]),
            volume |-> RInt(1),
            mass_fractions |-> <<RInt(0), RInt(sig[(i % n) + 1])>>]]

InitAnalysis ==
    \E n \in 3..MaxLen :
      \E g \in Spacings(n), sig \in [1..n -> Levels],
         tc \in {{}} \cup {{c} : c \in CompressionTimes} :
        LET times == TimesFrom(0, g)
            tbl == SeriesTable(times, sig)
        IN  /\ kind = IF tc = {} THEN "ST" ELSE "RCM"
            /\ properties =
                 [k \in {"ignition-delay"} \cup
                        (IF tc = {} THEN {} ELSE {"compression-time"}) |->
                    IF k = "ignition-delay" THEN <<times[n] \div 100>>
                    ELSE <<CHOOSE c \in tc : TRUE>>]
            /\ ignition_target \in
                 {[name |-> "pressure"], [name |-> "temperature"],
                  [index |-> 1]}
            /\ ignition_type \in IgnitionTypes
            /\ gas = <<"oh", "OH">>
            /\ time_end = times[n]
            /\ walls = <<"zero">>
            /\ max_time_step = 0
            /\ reac_net_time = times[n]
            /\ reac = [T |-> tbl[n].temperature, P |-> tbl[n].pressure,
                       V |-> tbl[n].volume, Y |-> tbl[n].mass_fractions]
            /\ rows = tbl
            /\ prev = <<SavedState(times[n], reac)>>
            /\ nsteps = n - 1
            /\ pc = "done"
            /\ err = ""
            /\ target = <<>>
            /\ ind = <<>>
            /\ ndiff = 0
            /\ x = <<>>
            /\ y = <<>>
            /\ dydx = <<>>

NextAnalysis == ProcessResults

SpecAnalysis == InitAnalysis /\ [][NextAnalysis]_vars

-----------------------------------------------------------------------------
(* first_derivative on a linear signal y = m*x + c sampled at strictly     *)
(* increasing points.                                                      *)

\* the spacings of the sample points
Gaps == {1, 2, 3}

Slopes == (0 - MaxSlope)..MaxSlope

Intercepts == {0, 1}

InitDerivative ==
    \E n \in 3..MaxLen :
      \E g \in [1..(n - 1) -> Gaps], m \in Slopes, c \in Intercepts :
        LET xs == TimesFrom(0, g)
        IN  /\ x = [i \in 1..n |-> RInt(xs[i])]
            /\ y = [i \in 1..n |-> RInt(m * xs[i] + c)]
            /\ dydx = <<>>
            /\ pc = "sampled"
            /\ kind = "ST"
            /\ properties = [k \in {"ignition-delay"} |-> <<1>>]
            /\ ignition_target = [name |-> "pressure"]
            /\ ignition_type = "d/dt max"
            /\ gas = <<>>
            /\ time_end = 0
            /\ walls = <<>>
            /\ max_time_step = 0
            /\ reac_net_time = 0
            /\ reac = NoReactor
            /\ rows = <<>>
            /\ prev = <<>>
            /\ nsteps = 0
            /\ err = ""
            /\ target = <<>>
            /\ ind = <<>>
            /\ ndiff = 0

Differentiate ==
    /\ pc = "sampled"
    /\ dydx' = first_derivative(x, y)
    /\ pc' = "derived"
    /\ UNCHANGED <<kind, properties, ignition_target, ignition_type, gas,
                   time_end, walls, max_time_step, reac_net_time, reac, rows,
                   prev, nsteps, err, target, ind, ndiff, x, y>>

NextDerivative == Differentiate

SpecDerivative == InitDerivative /\ [][NextDerivative]_vars


-----------------------------------------------------------------------------
(* Properties of run_case.                                                 *)

\* run_case has returned (process_results may have run since)
RunCompleted ==
    \/ pc \in {"done", "processed"}
    \/ pc = "error" /\ err = "ValueError"

LastRow == rows[Len(rows)]

\* the straight line through (t0, v0) and (t1, v1), at t
Lerp(t, t0, v0, t1, v1) ==
    RAdd(v0, RDiv(RMul(RSub(v1, v0), RInt(t - t0)), RInt(t1 - t0)))

\* the row at end_t on the straight lines from the row before to the state st
\* reached at time t
LerpRow(end_t, before, t, st) ==
    [time |-> end_t,
     temperature |-> Lerp(end_t, before.time, before.temperature, t, st.T),
     pressure |-> Lerp(end_t, before.time, before.pressure, t, st.P),
     volume |-> Lerp(end_t, before.time, before.volume, t, st.V),
     mass_fractions |->
        [i \in 1..Len(st.Y) |->
            Lerp(end_t, before.time, before.mass_fractions[i], t, st.Y[i])]]

\* C1: when run_case has completed for a case with end-time > 0, the last
\* recorded row's time is end-time exactly and it is the only row at or beyond
\* end-time: nothing was recorded after it.
C1_LastRowAtEndTime ==
    (RunCompleted /\ time_end > 0) =>
        /\ LastRow.time = time_end
        /\ \A i \in 1..(Len(rows) - 1) : rows[i].time < time_end

\* C1 witness: a completed run whose last step went beyond end-time
C1_Witness ==
    /\ pc = "done"
    /\ time_end > 0
    /\ reac_net_time > time_end
    /\ LastRow.time = time_end

\* C2: once an advance has taken the stepper from before end-time to beyond
\* it, the final row is at end-time and every channel of it is the linear
\* interpolation between the row recorded before the advance and the
\* overshooting state.
C2_OvershootInterpolated ==
    (time_end > 0 /\ nsteps > 0 /\ reac_net_time > time_end) =>
        /\ Len(rows) = nsteps + 1
        /\ LastRow = LerpRow(time_end, rows[Len(rows) - 1], reac_net_time, reac)

\* C9: at every point of run_case for a case with end-time > 0, the rows are
\* in increasing order of time, the first row is the initial state at time 0,
\* one row has been appended per advance, and no row is later than end-time.
C9_RowsOrderedOnePerAdvance ==
    (time_end > 0 /\ pc \in {"integrating", "done", "error"} /\ rows # <<>>) =>
        /\ \A i \in 1..(Len(rows) - 1) : rows[i].time < rows[i + 1].time
        /\ rows[1] = VerbatimRow(0, InitialReactor(Len(gas)))
        /\ Len(rows) = nsteps + 1
        /\ \A i \in 1..Len(rows) : rows[i].time <= time_end

\* C10: no advance finds the previous-state values undefined, and when the
\* very first advance goes beyond end-time the final row is the linear
\* interpolation between the initial record (time 0) and the overshooting
\* state.
C10_FirstOvershootInterpolated ==
    (time_end > 0 /\ nsteps >= 1) =>
        /\ err # "UnboundLocalError"
        /\ (nsteps = 1 /\ reac_net_time > time_end) =>
              /\ Len(rows) = 2
              /\ rows[2] = LerpRow(time_end,
                                   VerbatimRow(0, InitialReactor(Len(gas))),
                                   reac_net_time, reac)

-----------------------------------------------------------------------------
(* Properties of setup_case.                                               *)

\* the candidate names in the order exact, lower-cased, then for a name
\* ending in "*" the base name and the lower-cased base name
Candidates(s) ==
    IF EndsWithStar(s)
    THEN <<s, Lower(s), DropLast(s), Lower(DropLast(s))>>
    ELSE <<s, Lower(s)>>

\* the candidates that are species of mechanism g, in order
Matches(g, s) == SelectSeq(Candidates(s), LAMBDA c : \E i \in 1..Len(g) : g[i] = c)

\* the 0-based index of species c in g
IndexOf(g, c) == (CHOOSE i \in 1..Len(g) : g[i] = c) - 1

\* C4: setup_case resolves a species target to the index of the first
\* candidate the model has, whatever that index, and leaves the ignition-type
\* alone; it falls back to pressure and "d/dt max" exactly when no candidate
\* matches.
C4_SpeciesResolved ==
    [][(pc = "constructed" /\ pc' = "configured"
        /\ IsSpeciesTarget(ignition_target)) =>
          IF Matches(gas', ignition_target.name) # <<>>
          THEN /\ ignition_target' =
                    [index |-> IndexOf(gas', Matches(gas', ignition_target.name)[1])]
               /\ ignition_type' = ignition_type
          ELSE /\ ignition_target' = [name |-> "pressure"]
               /\ ignition_type' = "d/dt max"]_vars

DeclaredDelay == properties["ignition-delay"][1]

\* C6: a case whose declared ignition delay is zero or negative never gets
\* past setup_case, so no row is recorded and no advance made for it;
\* otherwise end-time is 100 times the declared delay.
C6_NonPositiveDelayRejected ==
    /\ DeclaredDelay <= 0 =>
          /\ pc \in {"constructed", "error"}
          /\ rows = <<>>
          /\ nsteps = 0
    /\ (DeclaredDelay > 0 /\ pc # "constructed") =>
          time_end = 100 * DeclaredDelay

\* setup_case has returned
SetupCompleted == pc \in {"configured", "integrating", "done", "processed"}

\* C7: after setup_case exactly one wall is installed, with zero velocity for
\* ST without a pressure-rise rate and for RCM without a volume history, the
\* pressure-rise profile for ST with a pressure-rise rate and the
\* volume-history profile for RCM with a volume-time history.
C7_WallByKind ==
    SetupCompleted =>
        /\ Len(walls) = 1
        /\ (kind = "ST" /\ ~Has("pressure-rise")) => walls[1] = "zero"
        /\ (kind = "ST" /\ Has("pressure-rise")) =>
              walls[1] = "PressureRiseProfile"
        /\ (kind = "RCM" /\ ~Has("volume")) => walls[1] = "zero"
        /\ (kind = "RCM" /\ Has("volume") /\ Has("time")) =>
              walls[1] = "VolumeProfile"

\* C7 witness: an RCM case with a volume-time history has been set up
C7_Witness ==
    /\ pc = "configured"
    /\ kind = "RCM"
    /\ Has("volume")
    /\ Has("time")
    /\ walls = <<"VolumeProfile">>

-----------------------------------------------------------------------------
(* Properties of first_derivative.                                         *)

\* the slope of the sampled line
Slope == RDiv(RSub(y[2], y[1]), RSub(x[2], x[1]))

\* C8: first_derivative of a linear signal over strictly increasing, possibly
\* non-uniform points returns the slope at every index, the two ends included.
C8_LinearSlopeEverywhere ==
    pc = "derived" => \A i \in 1..Len(x) : dydx[i] = Slope

-----------------------------------------------------------------------------
(* Properties of process_results.                                          *)

\* C3: on a series whose channel has no peak, even after the derivative
\* fallback, process_results completes and reports an overall delay of 0 s
\* and an undefined (NaN) first-stage delay.
C3_NoPeakReportsNoIgnition ==
    (pc \in {"processed", "error"} /\ ind = <<>>) =>
        /\ pc = "processed"
        /\ properties["simulated-ignition-delay"] = RInt(0)
        /\ properties["simulated-first-stage-delay"] = NaN

\* the peak with the largest channel value (the earliest of them if several)
MaxPeak ==
    LET P == {ind[k] : k \in 1..Len(ind)}
    IN  CHOOSE p \in P :
          /\ \A q \in P : RLeq(At(target, q), At(target, p))
          /\ \A q \in P : q < p => RLess(At(target, q), At(target, p))

\* the declared compression time, 0 without one
DeclaredCompressionTime ==
    IF Has("compression-time") THEN properties["compression-time"][1] ELSE 0

\* time[p] - tc for the peaks p at or before MaxPeak with time[p] - tc > 0,
\* in increasing order of time
CandidateDelays ==
    LET time == TimeColumn(rows)
        Keep(p) == p <= MaxPeak /\ At(time, p) - DeclaredCompressionTime > 0
        kept == SelectSeq(ind, Keep)
    IN  [k \in 1..Len(kept) |-> At(time, kept[k]) - DeclaredCompressionTime]

\* C5: for a non-empty peak set the overall delay is the last candidate delay
\* (0 when there is none) and the first-stage delay is the first candidate
\* when there are at least two and NaN otherwise; with two peaks at t1 < t2,
\* the dominant one at t2, and tc < t1, the delays are t2 - tc and t1 - tc.
C5_DelaysFromPeaks ==
    (pc = "processed" /\ ind # <<>>) =>
        LET c == CandidateDelays
            time == TimeColumn(rows)
            tc == DeclaredCompressionTime
        IN  /\ properties["simulated-ignition-delay"] =
                  IF Len(c) > 0 THEN RInt(c[Len(c)]) ELSE RInt(0)
            /\ properties["simulated-first-stage-delay"] =
                  IF Len(c) > 1 THEN RInt(c[1]) ELSE NaN
            /\ (/\ Len(ind) = 2
                /\ RLess(At(target, ind[1]), At(target, ind[2]))
                /\ tc < At(time, ind[1])) =>
                  /\ properties["simulated-ignition-delay"] =
                        RInt(At(time, ind[2]) - tc)
                  /\ properties["simulated-first-stage-delay"] =
                        RInt(At(time, ind[1]) - tc)

\* C5 witness: two peaks, the second dominant, after a declared compression
\* time, give two delays
C5_Witness ==
    /\ pc = "processed"
    /\ Len(ind) = 2
    /\ RLess(At(target, ind[1]), At(target, ind[2]))
    /\ Has("compression-time")
    /\ 0 < DeclaredCompressionTime
    /\ DeclaredCompressionTime < At(TimeColumn(rows), ind[1])
    /\ properties["simulated-first-stage-delay"] # NaN


\* the channel the ignition target names, as recorded
RecordedChannel == TargetColumn(rows, ignition_target)

\* the recorded times
RecordedTimes == [i \in 1..Len(rows) |-> RInt(rows[i].time)]

\* the channel handed to the first peak detection: differentiated for
\* "d/dt max", as recorded for "max"
FirstChannel ==
    IF ignition_type = "d/dt max"
    THEN first_derivative(RecordedTimes, RecordedChannel)
    ELSE RecordedChannel

\* C11: process_results differentiates the channel and detects peaks again
\* exactly when the first peak set is empty and the ignition-type is "max";
\* with "d/dt max" the channel is differentiated once, before the first peak
\* detection, and never again; when the first peak set is not empty the
\* channel and the peak set stay as they were.
C11_FallbackOnlyForMax ==
    pc \in {"processed", "error"} =>
        LET first_peaks == detect_peaks(FirstChannel)
            again == first_derivative(RecordedTimes, FirstChannel)
        IN  /\ (ignition_type = "max" /\ first_peaks = <<>>) =>
                  /\ ndiff = 1
                  /\ target = again
                  /\ ind = detect_peaks(again)
            /\ ignition_type = "d/dt max" =>
                  /\ ndiff = 1
                  /\ target = FirstChannel
                  /\ ind = first_peaks
            /\ first_peaks # <<>> =>
                  /\ ndiff = (IF ignition_type = "d/dt max" THEN 1 ELSE 0)
                  /\ target = FirstChannel
                  /\ ind = first_peaks

\* C11 witness: a "max" case whose recorded channel has no peak and whose
\* derivative has one
C11_Witness ==
    /\ pc = "processed"
    /\ ignition_type = "max"
    /\ detect_peaks(RecordedChannel) = <<>>
    /\ ndiff = 1
    /\ ind # <<>>

=============================================================================
